---------------------------- MODULE Spec2Model ----------------------------
(***************************************************************************)
(* Model of downloader.py (YTdownloader): the options builder              *)
(* YTDLDownloader._build_opts, the progress path _progress_hook ->         *)
(* App._update_progress, the process-wide Log, and the GUI's download      *)
(* worker threads (App._start_download_thread / App._download_action).     *)
(*                                                                         *)
(* Further parts: _progress_hook with callbacks that raise, the metadata   *)
(* fetch threads (App._fetch_info) and install_update.                     *)
(*                                                                         *)
(* Seven specifications share the variables below:                         *)
(*   SpecBuild     one call of _build_opts on inputs drawn by Init, and    *)
(*                 the record download() hands to the library              *)
(*   SpecProgress  a sequence of direct _update_progress calls             *)
(*   Spec          the GUI: UI thread clicks interleaved with workers      *)
(*   SpecPatient   the runs of Spec whose downloads do not overlap         *)
(*   SpecHook      a stream of events given to _progress_hook              *)
(*   SpecFetch     clicks on Fetch Info interleaved with fetch threads     *)
(*   SpecUpdate    one call of install_update, file operations failing     *)
(* A Python str that the code inspects character by character (the         *)
(* quality label) is a sequence of one-character strings; other strings    *)
(* are TLA+ strings.  A Log line is modelled by its message: the           *)
(* "[timestamp] " prefix that Log.add puts in front is left out.           *)
(***************************************************************************)
EXTENDS Integers, Sequences, FiniteSets, TLC

VARIABLES
    logger,         \* logger._lines, the process-wide Log
    args,           \* SpecBuild: the arguments of the _build_opts call
    ret,            \* SpecBuild: what the call returned ("pending" before)
    handed,         \* SpecBuild: the record download() gave to YoutubeDL
    hk,             \* SpecHook: the latest _progress_hook call and how it ended
    fpc,            \* SpecFetch: per metadata-fetch thread, where it is
    upd,            \* SpecUpdate: install_update's position and the files it touches
    has_pct,        \* hasattr(self, "_stable_pct")
    stable_pct,     \* App._stable_pct
    max_seen_pct,   \* App._max_seen_pct
    progress,       \* the value of the progress bar, in percent
    raw,            \* SpecProgress, history: the pct the latest call was given
    shown,          \* what the latest _update_progress call displayed (-1: nothing)
    hit100,         \* SpecProgress, history: some call has displayed 100
    downloading,    \* App.downloading (absent = False, see getattr)
    download_btn,   \* state of the Download button
    status,         \* text of the status label, without the "Status: " prefix
    pc,             \* per worker thread: where it is in _download_action
    nev,            \* number of progress events the library delivered so far
    last,           \* per worker thread, history: the value its latest hook call
                    \* displayed during the download() call in progress (-1: none)
    ok,             \* per worker thread: the local ok, the result of download()
    started         \* number of worker threads spawned so far

vars == <<logger, args, ret, handed, hk, fpc, upd, has_pct, stable_pct, max_seen_pct, progress,
          raw, shown, hit100, downloading, download_btn, status, pc, nev,
          last, ok, started>>

buildVars == <<args, ret>>
sideVars  == <<handed, hk, fpc, upd>>
pctVars   == <<has_pct, stable_pct, max_seen_pct, progress, shown>>
histVars  == <<raw, hit100>>
guiVars   == <<downloading, download_btn, status, pc, nev, last, ok, started>>

-----------------------------------------------------------------------------
(* Bounds *)

MaxQLen == 3        \* longest quality label drawn, in characters
MaxStarts == 2      \* Spec: worker threads spawned in one run
MaxFetches == 3     \* SpecFetch: clicks on Fetch Info that carry a URL
MaxHookCalls == 3   \* SpecHook: progress events delivered to the hook
MaxChunks == 2      \* SpecUpdate: chunks of the downloaded update
MaxEvents == 2      \* Spec: progress events the library delivers in one run

NoneStr == "None"   \* Python's None where a str is optional

-----------------------------------------------------------------------------
(* The Log *)

\* line 57 putting the new line in front
LogAddFront(lines, s) == <<s>> \o lines

\* Log.add: append the line at the end
LogAdd(lines, s) == Append(lines, s)

\* App._log: logger.add(s), then the line goes into the log text box
\* (a widget, not modelled; a failure there is swallowed)
AppLog(lines, s) == LogAdd(lines, s)

\* the ui_log callback the downloader was constructed with:
\* "gui": App._log (line 758), "cli": lambda s: None (line 843)
UiLog(wiring, lines, s) ==
    IF wiring = "gui" THEN AppLog(lines, s) ELSE lines

\* YTDLDownloader._log: logger.add(s), then ui_log(s)
DownloaderLog(wiring, lines, s) == UiLog(wiring, LogAdd(lines, s), s)

FfmpegMissingMsg ==
    "ffmpeg not found - will prefer single-file mp4 to prevent merge errors if necessary."

\* number of entries of the Log that are the line s
Count(lines, s) == Cardinality({i \in 1..Len(lines) : lines[i] = s})

-----------------------------------------------------------------------------
(* The options builder: YTDLDownloader._build_opts *)

Digits == <<"0", "1", "2", "3", "4", "5", "6", "7", "8", "9">>

IsDigit(c) == \E i \in 1..10 : Digits[i] = c

DigitVal(c) == (CHOOSE i \in 1..10 : Digits[i] = c) - 1

\* re.sub(r'[^0-9]', '', quality_label)
StripNonDigits(s) == SelectSeq(s, IsDigit)

\* int(ds) for a string of ASCII digits: the decimal value
RECURSIVE DecimalValue(_)
DecimalValue(ds) ==
    IF ds = <<>> THEN 0
    ELSE 10 * DecimalValue(SubSeq(ds, 1, Len(ds) - 1)) + DigitVal(ds[Len(ds)])

\* int(): raises ValueError on the empty string
ParseInt(ds) ==
    IF ds = <<>> THEN [raised |-> TRUE, val |-> 0]
    ELSE [raised |-> FALSE, val |-> DecimalValue(ds)]

\* str(h) as the f-string formats an int: decimal, no leading zeros
RECURSIVE IntToStr(_)
IntToStr(n) ==
    IF n < 10 THEN Digits[n + 1]
    ELSE IntToStr(n \div 10) \o Digits[(n % 10) + 1]

Auto == <<"a", "u", "t", "o">>

Q720 == <<"7", "2", "0">>

\* the f-string of line 145 with the height on the video leg only
HeightFormatVideoLegOnly(h) ==
    "bestvideo[height<=" \o IntToStr(h) \o "]+bestaudio/best"

\* f"bestvideo[height<={h}]+bestaudio/best[height<={h}]"
HeightFormat(h) ==
    "bestvideo[height<=" \o IntToStr(h) \o "]+bestaudio/best[height<=" \o IntToStr(h) \o "]"

\* the try block of lines 143-147 without its except clause
ResolutionFormatNoExcept(quality_label) ==
    LET p == ParseInt(StripNonDigits(quality_label))
    IN  IF p.raised THEN [raised |-> TRUE, format |-> ""]
        ELSE [raised |-> FALSE, format |-> HeightFormat(p.val)]

\* lines 143-147: try: h = int(...); requested_format = f"..." except: 'best'
ResolutionFormat(quality_label) ==
    LET p == ParseInt(StripNonDigits(quality_label))
    IN  IF p.raised THEN [raised |-> FALSE, format |-> "best"]
        ELSE [raised |-> FALSE, format |-> HeightFormat(p.val)]

\* lines 142-149: the expression asked for when ffmpeg is there
RequestedFormat(quality_label) ==
    IF quality_label # <<>> /\ quality_label # Auto
    THEN ResolutionFormat(quality_label)
    ELSE [raised |-> FALSE, format |-> "best"]

\* line 128 with the default changed
BitrateDefault128(mp3_bitrate) ==
    IF mp3_bitrate = NoneStr \/ mp3_bitrate = "" THEN "128" ELSE mp3_bitrate

\* line 128: bitrate = mp3_bitrate or '192'
Bitrate(mp3_bitrate) ==
    IF mp3_bitrate = NoneStr \/ mp3_bitrate = "" THEN "192" ELSE mp3_bitrate

\* lines 104-122: the entries every Options Record starts with
BaseOpts(save_subs, save_thumb, ffmpeg) ==
    [outtmpl |-> "<out_dir>/%(title)s.%(ext)s",
     noplaylist |-> TRUE,
     progress_hooks |-> <<"_progress_hook">>,
     quiet |-> TRUE,
     no_warnings |-> TRUE,
     writesubtitles |-> save_subs,
     writeautomaticsub |-> save_subs,
     writethumbnail |-> save_thumb,
     skip_download |-> FALSE,
     ffmpeg_location |-> IF ffmpeg THEN "<dirname(which ffmpeg)>" ELSE "C:\\ffmpeg\\bin"]

\* lines 127-137: opts.update({...}) of the MP3 mode
AudioOpts(mp3_bitrate) ==
    [format |-> "bestaudio/best",
     postprocessors |-> <<[key |-> "FFmpegExtractAudio",
                           preferredcodec |-> "mp3",
                           preferredquality |-> Bitrate(mp3_bitrate)]>>]

\* lines 155-161 with the ffmpeg test dropped
VideoFormatOptsNoFallback(requested_format, ffmpeg) ==
    [format |-> requested_format]

\* lines 155-161: the entries set according to has_ffmpeg()
VideoFormatOpts(requested_format, ffmpeg) ==
    IF ~ffmpeg
    THEN [format |-> "best[ext=mp4]/best", abort_on_unavailable_fragments |-> FALSE]
    ELSE [format |-> requested_format]

\* lines 166-168: the metadata options
MetaOpts(save_meta) ==
    IF save_meta THEN [writedescription |-> TRUE, writeinfojson |-> TRUE] ELSE <<>>

\* _build_opts.  wiring and lines stand for self.ui_log and logger._lines,
\* ffmpeg for what has_ffmpeg() reports during the call.  The result is the
\* returned dict (opts), the Log afterwards (lines) and whether the call
\* raised instead of returning.
BuildOpts(wiring, lines, to_mp3, save_subs, save_thumb, save_meta, quality_label, mp3_bitrate, ffmpeg) ==
    LET base == BaseOpts(save_subs, save_thumb, ffmpeg)
        rf   == RequestedFormat(quality_label)
    IN  IF to_mp3
        THEN [raised |-> FALSE, lines |-> lines,
              opts |-> AudioOpts(mp3_bitrate) @@ base]
        ELSE IF rf.raised
        THEN [raised |-> TRUE, lines |-> lines, opts |-> <<>>]
        ELSE [raised |-> FALSE,
              lines |-> IF ~ffmpeg
                        THEN DownloaderLog(wiring, lines, FfmpegMissingMsg)
                        ELSE lines,
              opts |-> MetaOpts(save_meta) @@ VideoFormatOpts(rf.format, ffmpeg) @@ base]

\* lines 184-185 relaxing the restriction for the playlist mode only
RelaxPlaylistOnly(mode, opts) ==
    IF mode = "playlist" THEN [opts EXCEPT !.noplaylist = FALSE] ELSE opts

\* download(), lines 184-185: playlist and channel enable full lists
RelaxPlaylist(mode, opts) ==
    IF mode \in {"playlist", "channel"}
    THEN [opts EXCEPT !.noplaylist = FALSE]
    ELSE opts

-----------------------------------------------------------------------------
(* SpecBuild: one call of _build_opts, and what download() then hands to   *)
(* the extraction library                                                  *)

Modes == {"video", "playlist", "channel"}

QChars == {"0", "2", "7", "p"}

RECURSIVE StringsUpTo(_)
StringsUpTo(n) ==
    IF n = 0 THEN {<<>>}
    ELSE LET shorter == StringsUpTo(n - 1)
         IN  shorter \cup {Append(s, c) : s \in shorter, c \in QChars}

QualityLabels == StringsUpTo(MaxQLen) \cup {Auto}

Bitrates == {NoneStr, "", "128", "320"}

Wirings == {"cli", "gui"}

BuildArgs ==
    [wiring : Wirings, to_mp3 : BOOLEAN, save_subs : BOOLEAN, save_thumb : BOOLEAN,
     save_meta : BOOLEAN, quality_label : QualityLabels, mp3_bitrate : Bitrates,
     ffmpeg : BOOLEAN, mode : Modes]

Pending == [raised |-> FALSE, lines |-> <<>>, opts |-> <<>>, pending |-> TRUE]

PctIdle ==
    /\ has_pct = FALSE /\ stable_pct = 0 /\ max_seen_pct = 0
    /\ progress = 0 /\ raw = -1 /\ shown = -1 /\ hit100 = FALSE

\* the variables of the other specifications, at rest
SideIdle == handed = <<>> /\ hk = <<>> /\ fpc = <<>> /\ upd = <<>>

GuiIdle ==
    /\ downloading = FALSE /\ download_btn = "normal" /\ status = "Idle"
    /\ pc = <<>> /\ nev = 0 /\ last = <<>> /\ ok = <<>>
    /\ started = 0

InitBuild ==
    /\ logger \in {<<>>, <<"Starting download">>}
    /\ args \in BuildArgs
    /\ ret = Pending
    /\ PctIdle
    /\ GuiIdle
    /\ SideIdle

CallBuildOpts ==
    /\ ret = Pending
    /\ LET r == BuildOpts(args.wiring, logger, args.to_mp3, args.save_subs,
                          args.save_thumb, args.save_meta, args.quality_label,
                          args.mp3_bitrate, args.ffmpeg)
       IN  /\ ret' = r
           /\ logger' = r.lines
    /\ UNCHANGED <<args, sideVars, pctVars, histVars, guiVars>>

\* download(), lines 181-187: the built record, relaxed for the playlist
\* and channel modes, is given to YoutubeDL
HandOver ==
    /\ ret # Pending /\ ~ret.raised
    /\ handed = <<>>
    /\ handed' = RelaxPlaylist(args.mode, ret.opts)
    /\ UNCHANGED <<logger, args, ret, hk, fpc, upd, pctVars, histVars, guiVars>>

NextBuild == CallBuildOpts \/ HandOver

SpecBuild == InitBuild /\ [][NextBuild]_vars


-----------------------------------------------------------------------------
(* The Progress Normalizer: App._update_progress *)

MaxPct == 100       \* line 654: the displayed value is clamped to 0..100
NoiseLimit == 1000  \* line 641: a pct above this is discarded

Max(a, b) == IF a >= b THEN a ELSE b
Min(a, b) == IF a <= b THEN a ELSE b

\* lines 645-647 left out: a backward jump is passed on as it comes
KeepBackward(pct, max_seen) == pct

\* lines 645-647: a pct below the largest seen is replaced by the largest seen
IgnoreBackward(pct, max_seen) == IF pct < max_seen THEN max_seen ELSE pct

\* line 654 with the upper limit left out
ClampBelowOnly(pct) == Max(0, pct)

\* line 654: pct = max(0, min(100, pct))
Clamp(pct) == Max(0, Min(MaxPct, pct))

\* line 641 with the upper test left out
IsNoiseNegativeOnly(pct) == pct < 0

\* line 641, for a number: pct < 0 or pct > 1000
IsNoise(pct) == pct < 0 \/ pct > NoiseLimit

\* The normalizer's state as a record: has (the two attributes exist),
\* stable, max_seen, bar (progress bar), label (status label text),
\* shown (what this call displayed, -1 if it returned before displaying).
\* _update_progress(pct) for a number pct:
UpdateProgress(st, pct) ==
    LET stable0 == IF st.has THEN st.stable ELSE 0           \* lines 636-638
        max0    == IF st.has THEN st.max_seen ELSE 0
        p       == IgnoreBackward(pct, max0)                 \* lines 645-647
        disp    == Clamp(p)                                  \* line 654
    IN  IF IsNoise(pct)                                      \* lines 641-642
        THEN [st EXCEPT !.has = TRUE, !.stable = stable0, !.max_seen = max0,
                        !.shown = -1]
        ELSE [has      |-> TRUE,
              max_seen |-> IF disp = MaxPct THEN 0 ELSE Max(max0, p),  \* 650, 668-669
              stable   |-> IF disp = MaxPct THEN 0 ELSE p,             \* 651, 670
              bar      |-> disp,                                        \* 657
              label    |-> "Downloading... " \o IntToStr(disp) \o "%",  \* 660
              shown    |-> disp]

PctState ==
    [has |-> has_pct, stable |-> stable_pct, max_seen |-> max_seen_pct,
     bar |-> progress, label |-> status, shown |-> shown]

\* the App after self._update_progress(pct)
DoUpdateProgress(pct) ==
    LET st == UpdateProgress(PctState, pct)
    IN  /\ has_pct' = st.has
        /\ stable_pct' = st.stable
        /\ max_seen_pct' = st.max_seen
        /\ progress' = st.bar
        /\ status' = st.label
        /\ shown' = st.shown

-----------------------------------------------------------------------------
(* SpecProgress: _update_progress called directly, again and again *)

RawValues == 0..100 \cup {-5, 150, 1000, 1001, 1500}

InitProgress ==
    /\ logger = <<>>
    /\ args = <<>> /\ ret = <<>>
    /\ PctIdle
    /\ GuiIdle
    /\ SideIdle

CallUpdateProgress ==
    /\ \E pct \in RawValues :
          /\ DoUpdateProgress(pct)
          /\ raw' = pct
          /\ hit100' = (hit100 \/ shown' = MaxPct)
    /\ UNCHANGED <<logger, buildVars, sideVars, downloading, download_btn, pc, nev, last,
                   ok, started>>

NextProgress == CallUpdateProgress

SpecProgress == InitProgress /\ [][NextProgress]_vars

\* C2 (first part): until some call has displayed 100, the progress bar never
\* moves backward from one _update_progress call to the next.
C2_NonDecreasing == [][~hit100 => progress' >= progress]_vars

\* C2 (second part): right after a call that displayed 100, max-seen and the
\* stored percent are both 0.
C2_ResetAfter100 == shown = MaxPct => (max_seen_pct = 0 /\ stable_pct = 0)

\* C2: from 0/0, for any sequence of raw percentages the displayed values are
\* non-decreasing up to and including the first displayed 100, and right
\* after that 100 max-seen and stored percent are both 0.
C2_MonotoneUntil100 == C2_NonDecreasing /\ []C2_ResetAfter100

\* a raw 20 arrived after 70 had been seen and 70 stayed on display
C2_Witness ==
    /\ ~hit100 /\ raw = 20 /\ shown = 70 /\ progress = 70
    /\ max_seen_pct = 70 /\ stable_pct = 70

-----------------------------------------------------------------------------
(* The progress hook: YTDLDownloader._progress_hook *)

\* the byte counters the library reports in a 'downloading' event
\* (total 0: neither total_bytes nor total_bytes_estimate is known)
Totals == {0, 5}
Downloadeds == {3, 5}

Events ==
    [status : {"downloading"}, downloaded_bytes : Downloadeds, total_bytes : Totals]
    \cup [status : {"finished", "error"}, downloaded_bytes : {0}, total_bytes : {0}]

\* line 83: percent = int(downloaded / total * 100) if total else 0
\* (for the counters drawn here the float product is exact)
Percent(d) ==
    IF d.total_bytes # 0 THEN (d.downloaded_bytes * 100) \div d.total_bytes ELSE 0

\* Log messages, by their fixed part
StartingMsg == "Starting download: ..."
FinishedForMsg == "Download finished for: ..."
ErrorStateMsg == "Download error state"
FlowFinishedMsg == "Download flow finished"
FailedMsg == "Download failed: ..."

\* line 91 passing on the event's own counters instead of 100
FinishedPercentFromCounters(d) == Percent(d)

\* line 91: a finished event is reported as 100, whatever its counters
FinishedPercent(d) == 100

\* _progress_hook(d) of a downloader wired to the App (ui_progress =
\* App._update_progress, ui_log = App._log), called by worker thread i
ProgressHook(i, d) ==
    /\ CASE d.status = "downloading" ->
                /\ DoUpdateProgress(Percent(d))
                /\ UNCHANGED logger
         [] d.status = "finished" ->
                /\ DoUpdateProgress(FinishedPercent(d))
                /\ logger' = DownloaderLog("gui", logger, FinishedForMsg)
         [] d.status = "error" ->
                /\ logger' = DownloaderLog("gui", logger, ErrorStateMsg)
                /\ UNCHANGED <<pctVars, status>>
    /\ last' = [last EXCEPT ![i] = IF d.status = "error" \/ shown' = -1
                                   THEN @ ELSE shown']

-----------------------------------------------------------------------------
(* Spec: the GUI.  The UI thread handles clicks on the Download button; each *)
(* accepted click spawns a thread that runs App._download_action.           *)

Threads == 1..Len(pc)

Ended == {"done", "died"}

Active(i) == pc[i] \notin Ended

ActiveWorkers == {i \in Threads : Active(i)}

Init ==
    /\ logger = <<>>
    /\ args = <<>> /\ ret = <<>>
    /\ PctIdle
    /\ GuiIdle
    /\ SideIdle

\* _start_download_thread (lines 749-751), the command of the Download
\* button: a disabled button does not call it
StartDownloadThread ==
    /\ download_btn = "normal"
    /\ started < MaxStarts
    /\ IF downloading
       THEN UNCHANGED vars
       ELSE /\ pc' = Append(pc, "begin")
                    /\ last' = Append(last, -1)
            /\ ok' = Append(ok, FALSE)
            /\ started' = started + 1
            /\ UNCHANGED <<logger, buildVars, sideVars, histVars, pctVars, downloading,
                           download_btn, status, nev>>

Goto(i, where) == pc' = [pc EXCEPT ![i] = where]

\* lines 754-755: read the URL; without one the worker warns and returns
ReadUrl(i) ==
    /\ pc[i] = "begin"
    /\ \E url \in {"", "https://youtu.be/x"} :
           Goto(i, IF url = "" THEN "done" ELSE "setflag")
    /\ UNCHANGED <<logger, buildVars, sideVars, histVars, pctVars, downloading, download_btn, status,
                   nev, last, ok, started>>

\* line 756: self.downloading = True
SetFlag(i) ==
    /\ pc[i] = "setflag"
    /\ downloading' = TRUE
    /\ Goto(i, "disable")
    /\ UNCHANGED <<logger, buildVars, sideVars, histVars, pctVars, download_btn, status, nev, last,
                   ok, started>>

\* line 757: the Download button is disabled
DisableButton(i) ==
    /\ pc[i] = "disable"
    /\ download_btn' = "disabled"
    /\ Goto(i, "construct")
    /\ UNCHANGED <<logger, buildVars, sideVars, histVars, pctVars, downloading, status, nev, last,
                   ok, started>>

\* lines 758-759: the downloader is constructed (ensure_dir creates the
\* output directory) and the status set
Construct(i) ==
    /\ pc[i] = "construct"
    /\ status' = "Downloading..."
    /\ Goto(i, "call")
    /\ UNCHANGED <<logger, buildVars, sideVars, histVars, pctVars, downloading, download_btn, nev,
                   last, ok, started>>

\* line 758 when ensure_dir raises (line 41): nothing in _download_action
\* catches it and the thread ends there
ConstructRaises(i) ==
    /\ pc[i] = "construct"
    /\ Goto(i, "died")
    /\ UNCHANGED <<logger, buildVars, sideVars, histVars, pctVars, downloading, download_btn, status,
                   nev, last, ok, started>>

\* what the worker reads from the input widgets at lines 761-767, and what
\* has_ffmpeg() reports during the call
GuiRequests ==
    [fmt : {"mp4", "mp3"}, quality_label : {Auto, Q720}, save_subs : BOOLEAN,
     save_thumb : BOOLEAN, save_meta : BOOLEAN, ffmpeg : BOOLEAN]

\* line 767: the bitrate menu's value (line 443: "192" unless changed) is
\* passed for the mp3 format only
GuiBitrate(fmt) == IF fmt = "mp3" THEN "192" ELSE NoneStr

\* line 760 into download(), lines 176-188: the start is logged, the
\* options are built and handed to the library
CallDownload(i) ==
    /\ pc[i] = "call"
    /\ \E r \in GuiRequests :
          LET to_mp3 == (r.fmt = "mp3")                          \* line 177
              built  == BuildOpts("gui", DownloaderLog("gui", logger, StartingMsg),
                                  to_mp3, r.save_subs, r.save_thumb, r.save_meta,
                                  r.quality_label, GuiBitrate(r.fmt), r.ffmpeg)
          IN  /\ logger' = built.lines
              /\ Goto(i, IF built.raised THEN "failed" ELSE "library")
    /\ last' = [last EXCEPT ![i] = -1]
    /\ UNCHANGED <<buildVars, sideVars, histVars, pctVars, downloading, download_btn, status, nev,
                   ok, started>>

\* line 188: during ydl.download the library calls the progress hook
LibraryEvent(i) ==
    /\ pc[i] = "library"
    /\ nev < MaxEvents
    /\ \E d \in Events : ProgressHook(i, d)
    /\ nev' = nev + 1
    /\ UNCHANGED <<buildVars, sideVars, histVars, downloading, download_btn, pc, ok, started>>

\* lines 190-191: the library call returned
LibraryReturns(i) ==
    /\ pc[i] = "library"
    /\ logger' = DownloaderLog("gui", logger, FlowFinishedMsg)
    /\ ok' = [ok EXCEPT ![i] = TRUE]
    /\ last' = [last EXCEPT ![i] = -1]        \* the call is over
    /\ Goto(i, "enable")
    /\ UNCHANGED <<buildVars, sideVars, histVars, pctVars, downloading, download_btn, status, nev,
                   started>>

\* lines 193-196 left out: the exception leaves download() and, uncaught
\* in _download_action, ends the thread
LibraryRaisesEscapes(i) ==
    /\ pc[i] \in {"library", "failed"}
    /\ last' = [last EXCEPT ![i] = -1]
    /\ Goto(i, "died")
    /\ UNCHANGED <<logger, buildVars, sideVars, histVars, pctVars, downloading, download_btn,
                   status, nev, ok, started>>

\* lines 193-196: the library call (or building the options) raised
LibraryRaises(i) ==
    /\ pc[i] \in {"library", "failed"}
    /\ logger' = DownloaderLog("gui", logger, FailedMsg)
    /\ ok' = [ok EXCEPT ![i] = FALSE]
    /\ last' = [last EXCEPT ![i] = -1]        \* the call is over
    /\ Goto(i, "enable")
    /\ UNCHANGED <<buildVars, sideVars, histVars, pctVars, downloading, download_btn, status, nev,
                   started>>

\* line 768: the Download button is enabled again
EnableButton(i) ==
    /\ pc[i] = "enable"
    /\ download_btn' = "normal"
    /\ Goto(i, "clearflag")
    /\ UNCHANGED <<logger, buildVars, sideVars, histVars, pctVars, downloading, status, nev, last,
                   ok, started>>

\* line 769: self.downloading = False
ClearFlag(i) ==
    /\ pc[i] = "clearflag"
    /\ downloading' = FALSE
    /\ Goto(i, "report")
    /\ UNCHANGED <<logger, buildVars, sideVars, histVars, pctVars, download_btn, status, nev, last,
                   ok, started>>

\* lines 770-775: the outcome is reported
Report(i) ==
    /\ pc[i] = "report"
    /\ status' = IF ok[i] THEN "Finished" ELSE "Failed"
    /\ ok' = [ok EXCEPT ![i] = FALSE]         \* the local is gone with the thread
    /\ Goto(i, "done")
    /\ UNCHANGED <<logger, buildVars, sideVars, histVars, pctVars, downloading, download_btn, nev,
                   last, started>>

\* _clear_logs (lines 721-723), the command of the Clear button: the Log
\* is emptied and the log box redrawn from it
ClearLogs ==
    /\ logger # <<>>
    /\ logger' = <<>>
    /\ UNCHANGED <<buildVars, sideVars, histVars, pctVars, guiVars>>

\* a click, or one step of a worker thread in _download_action
Next ==
    \/ StartDownloadThread
    \/ ClearLogs
    \/ \E i \in Threads : ReadUrl(i)
    \/ \E i \in Threads : SetFlag(i)
    \/ \E i \in Threads : DisableButton(i)
    \/ \E i \in Threads : Construct(i)
    \/ \E i \in Threads : ConstructRaises(i)
    \/ \E i \in Threads : CallDownload(i)
    \/ \E i \in Threads : LibraryEvent(i)
    \/ \E i \in Threads : LibraryReturns(i)
    \/ \E i \in Threads : LibraryRaises(i)
    \/ \E i \in Threads : EnableButton(i)
    \/ \E i \in Threads : ClearFlag(i)
    \/ \E i \in Threads : Report(i)

Spec == Init /\ [][Next]_vars

\* one step of some worker thread in _download_action
WorkerStep ==
    \/ \E i \in Threads : ReadUrl(i)
    \/ \E i \in Threads : SetFlag(i)
    \/ \E i \in Threads : DisableButton(i)
    \/ \E i \in Threads : Construct(i)
    \/ \E i \in Threads : ConstructRaises(i)
    \/ \E i \in Threads : CallDownload(i)
    \/ \E i \in Threads : LibraryEvent(i)
    \/ \E i \in Threads : LibraryReturns(i)
    \/ \E i \in Threads : LibraryRaises(i)
    \/ \E i \in Threads : EnableButton(i)
    \/ \E i \in Threads : ClearFlag(i)
    \/ \E i \in Threads : Report(i)

\* SpecPatient: the runs of Spec in which the user clicks Download only
\* while no worker thread is alive, so that downloads never overlap
StartWhenIdle == ActiveWorkers = {} /\ StartDownloadThread

NextPatient == StartWhenIdle \/ WorkerStep

SpecPatient == Init /\ [][NextPatient]_vars

-----------------------------------------------------------------------------
(* Properties of the GUI: C1 is checked under Spec, C3 and C4 under        *)
(* SpecPatient, where no two downloads overlap                            *)

\* C1: at no reachable state are two download workers active at once: a
\* start request issued while a download is in flight spawns no second
\* worker, also when it arrives after the first worker was spawned and
\* before that worker has set the downloading flag.
C1_OneWorkerAtATime == Cardinality(ActiveWorkers) <= 1

\* C3: within one call of download() the value shown on the progress bar
\* never moves backward: each value a hook call of the worker displays is
\* greater than or equal to the one its previous hook call displayed.
C3_NeverBackward ==
    [][\A i \in DOMAIN last :
          (last[i] # -1 /\ last'[i] # -1) => last'[i] >= last[i]]_vars

\* C4: at the moment _download_action begins a download (line 760), max-seen
\* and stored percent are both 0, whatever the previous download did.
C4_ResetAtStart ==
    \A i \in Threads : pc[i] = "call" => (max_seen_pct = 0 /\ stable_pct = 0)

-----------------------------------------------------------------------------
(* SpecHook: _progress_hook of a downloader whose two callbacks may raise  *)
(* an Exception on any call.  An operator below says whether an exception  *)
(* leaves the statement it models.                                         *)

HookErrorMsg == "Progress hook error: ..."

\* lines 85-88 and 90-93 without the try: the callback's exception goes on
UiProgressUnguarded(praises) == praises

\* lines 85-88 and 90-93: try: self.ui_progress(...) except Exception: pass
UiProgressGuarded(praises) == FALSE

\* lines 72-76: try: self.ui_log(s) except Exception: pass
UiLogGuarded(lraises) == FALSE

\* YTDLDownloader._log(s) with a callback that may raise: the line is added
\* to the Log first (line 71)
LogCall(lines, s, lraises) ==
    [lines |-> LogAdd(lines, s), thrown |-> UiLogGuarded(lraises)]

\* lines 98-99: whatever was thrown inside the hook's try is logged
HookExcept(lines, thrown, lraises) ==
    IF thrown
    THEN LET l == LogCall(lines, HookErrorMsg, lraises)
         IN  [lines |-> l.lines, escaped |-> l.thrown]
    ELSE [lines |-> lines, escaped |-> FALSE]

\* _progress_hook(d), lines 77-99
HookCall(lines, d, praises, lraises) ==
    CASE d.status = "downloading" ->
            HookExcept(lines, UiProgressGuarded(praises), lraises)
      [] d.status = "finished" ->
            IF UiProgressGuarded(praises)
            THEN HookExcept(lines, TRUE, lraises)
            ELSE LET l == LogCall(lines, FinishedForMsg, lraises)
                 IN  HookExcept(l.lines, l.thrown, lraises)
      [] d.status = "error" ->
            LET l == LogCall(lines, ErrorStateMsg, lraises)
            IN  HookExcept(l.lines, l.thrown, lraises)

HookCalls == IF hk = <<>> THEN 0 ELSE hk.n

\* the library delivers one more event; each callback raises or does not
HookEvent ==
    /\ HookCalls < MaxHookCalls
    /\ \E d \in Events, praises \in BOOLEAN, lraises \in BOOLEAN :
          LET r == HookCall(logger, d, praises, lraises)
          IN  /\ logger' = r.lines
              /\ hk' = [n |-> HookCalls + 1, d |-> d, praises |-> praises,
                        lraises |-> lraises, escaped |-> r.escaped]
    /\ UNCHANGED <<buildVars, handed, fpc, upd, pctVars, histVars, guiVars>>

NextHook == HookEvent

SpecHook == Init /\ [][NextHook]_vars

\* C17: whichever callbacks raise, at any event of the stream, nothing
\* leaves _progress_hook, a finished event adds exactly 'Download finished
\* for' to the Log, an error event exactly 'Download error state', and a
\* downloading event nothing.
C17_CallbackFailureDiscarded ==
    [][hk' # hk =>
          /\ ~hk'.escaped
          /\ hk'.d.status = "finished" => logger' = Append(logger, FinishedForMsg)
          /\ hk'.d.status = "error" => logger' = Append(logger, ErrorStateMsg)
          /\ hk'.d.status = "downloading" => logger' = logger]_vars

\* the second event was a finished event for which both callbacks raised
C17_Witness ==
    /\ hk # <<>> /\ hk.n = 2 /\ hk.d.status = "finished"
    /\ hk.praises /\ hk.lraises /\ ~hk.escaped
    /\ Len(logger) >= 1 /\ logger[Len(logger)] = FinishedForMsg

-----------------------------------------------------------------------------
(* SpecFetch: the Fetch Info button.  The UI thread handles the clicks;    *)
(* each click that finds a URL spawns a thread running _fetch_info_worker. *)

FetchThreads == 1..Len(fpc)

FetchWorkers == {i \in FetchThreads : fpc[i] # "done"}

FetchedMsg == "Fetched: ..."
FetchErrorMsg == "Error: ..."

FetchGoto(i, where) == fpc' = [fpc EXCEPT ![i] = where]

\* _fetch_info (lines 729-732): without a URL a warning is shown, otherwise
\* a worker thread is started
FetchInfo ==
    /\ Len(fpc) < MaxFetches
    /\ \E url \in {"", "https://youtu.be/x"} :
          fpc' = IF url = "" THEN fpc ELSE Append(fpc, "begin")
    /\ UNCHANGED <<logger, buildVars, handed, hk, upd, pctVars, histVars, guiVars>>

\* line 735: the status is set
FetchStatus(i) ==
    /\ fpc[i] = "begin"
    /\ status' = "Fetching info..."
    /\ FetchGoto(i, "extract")
    /\ UNCHANGED <<logger, buildVars, handed, hk, upd, pctVars, histVars, downloading,
                   download_btn, pc, nev, last, ok, started>>

\* lines 737-738: the metadata is extracted, or the library raises
FetchExtract(i) ==
    /\ fpc[i] = "extract"
    /\ \E raises \in BOOLEAN : FetchGoto(i, IF raises THEN "except" ELSE "fetched")
    /\ UNCHANGED <<logger, buildVars, handed, hk, upd, pctVars, histVars, guiVars>>

\* lines 739-743: the quality menu is filled and the title logged
FetchLog(i) ==
    /\ fpc[i] = "fetched"
    /\ logger' = AppLog(logger, FetchedMsg)
    /\ FetchGoto(i, "setfetched")
    /\ UNCHANGED <<buildVars, handed, hk, upd, pctVars, histVars, guiVars>>

\* line 744
FetchFetched(i) ==
    /\ fpc[i] = "setfetched"
    /\ status' = "Info fetched"
    /\ FetchGoto(i, "done")
    /\ UNCHANGED <<logger, buildVars, handed, hk, upd, pctVars, histVars, downloading,
                   download_btn, pc, nev, last, ok, started>>

\* lines 745-746: the exception is logged
FetchLogError(i) ==
    /\ fpc[i] = "except"
    /\ logger' = AppLog(logger, FetchErrorMsg)
    /\ FetchGoto(i, "setfailed")
    /\ UNCHANGED <<buildVars, handed, hk, upd, pctVars, histVars, guiVars>>

\* line 747
FetchFailed(i) ==
    /\ fpc[i] = "setfailed"
    /\ status' = "Fetch failed"
    /\ FetchGoto(i, "done")
    /\ UNCHANGED <<logger, buildVars, handed, hk, upd, pctVars, histVars, downloading,
                   download_btn, pc, nev, last, ok, started>>

NextFetch ==
    \/ FetchInfo
    \/ \E i \in FetchThreads : FetchStatus(i)
    \/ \E i \in FetchThreads : FetchExtract(i)
    \/ \E i \in FetchThreads : FetchLog(i)
    \/ \E i \in FetchThreads : FetchFetched(i)
    \/ \E i \in FetchThreads : FetchLogError(i)
    \/ \E i \in FetchThreads : FetchFailed(i)

SpecFetch == Init /\ [][NextFetch]_vars

\* C16: at most one metadata-fetch worker runs at a time: a Fetch Info
\* request issued while one is running starts no second one.
C16_OneFetchWorker == Cardinality(FetchWorkers) <= 1

-----------------------------------------------------------------------------
(* SpecUpdate: one call of install_update.  upd holds the position in the  *)
(* function, what is at the executable's path (exe) and at the backup path *)
(* (backup), the chunks written to the temporary file, and how the call    *)
(* ended.  Every file operation succeeds or raises.                        *)

\* content of a path: the running version, the downloaded one, an
\* incompletely written file, a backup left by an earlier update, nothing
Contents == {"old", "new", "partial", "stale", "none"}

InitUpdate ==
    /\ logger = <<>>
    /\ args = <<>> /\ ret = <<>>
    /\ PctIdle
    /\ GuiIdle
    /\ handed = <<>> /\ hk = <<>> /\ fpc = <<>>
    /\ \E frozen \in BOOLEAN, b \in {"none", "stale"} :
          upd = [pc |-> "download", exe |-> "old", backup |-> b, chunks |-> 0,
                 frozen |-> frozen, outcome |-> "running"]

UpdRest == <<logger, buildVars, handed, hk, fpc, pctVars, histVars, guiVars>>

\* line 251: except Exception: return None
ReturnNone(u) == [u EXCEPT !.pc = "end", !.outcome = "none"]

\* lines 219-226: the update is written to a temporary file chunk by chunk;
\* the request or a write may raise
DownloadUpdate ==
    /\ upd.pc = "download"
    /\ \/ /\ upd.chunks < MaxChunks
          /\ upd' = [upd EXCEPT !.chunks = @ + 1]
       \/ upd' = [upd EXCEPT !.pc = "frozen"]
       \/ upd' = ReturnNone(upd)
    /\ UNCHANGED UpdRest

\* lines 227 and 248-249: anything but a packaged executable returns the
\* temporary file's path
CheckFrozen ==
    /\ upd.pc = "frozen"
    /\ upd' = IF upd.frozen
              THEN [upd EXCEPT !.pc = "replace1"]
              ELSE [upd EXCEPT !.pc = "end", !.outcome = "temp"]
    /\ UNCHANGED UpdRest

\* lines 230-233: os.replace(current_exe, backup)
ReplaceCurrent ==
    /\ upd.pc = "replace1"
    /\ \E done \in BOOLEAN :
          upd' = IF done
                 THEN [upd EXCEPT !.backup = upd.exe, !.exe = "none", !.pc = "copy1"]
                 ELSE [upd EXCEPT !.pc = "remove"]
    /\ UNCHANGED UpdRest

\* lines 234-235: os.remove(backup); it raises when there is no backup
RemoveBackup ==
    /\ upd.pc = "remove"
    /\ \E done \in BOOLEAN :
          upd' = IF done /\ upd.backup # "none"
                 THEN [upd EXCEPT !.backup = "none", !.pc = "replace2"]
                 ELSE [upd EXCEPT !.pc = "copy1"]
    /\ UNCHANGED UpdRest

\* lines 236-237: os.replace(current_exe, backup), second attempt
ReplaceCurrentAgain ==
    /\ upd.pc = "replace2"
    /\ \E done \in BOOLEAN :
          upd' = IF done
                 THEN [upd EXCEPT !.backup = upd.exe, !.exe = "none", !.pc = "copy1"]
                 ELSE [upd EXCEPT !.pc = "copy1"]
    /\ UNCHANGED UpdRest

\* lines 238-240: shutil.copy(temp_file, current_exe); a copy that raises
\* leaves the target as it was or incompletely written
CopyToCurrent ==
    /\ upd.pc = "copy1"
    /\ \/ upd' = [upd EXCEPT !.exe = "new", !.pc = "popen"]
       \/ \E left \in {upd.exe, "partial"} :
             upd' = [upd EXCEPT !.exe = left, !.pc = "copy2"]
    /\ UNCHANGED UpdRest

\* lines 241-242: shutil.copy(temp_file, backup)
CopyToBackup ==
    /\ upd.pc = "copy2"
    /\ \/ upd' = [upd EXCEPT !.backup = "new", !.pc = "replace3"]
       \/ \E left \in {upd.backup, "partial"} :
             upd' = [upd EXCEPT !.backup = left, !.pc = "popen"]
    /\ UNCHANGED UpdRest

\* lines 243-245: os.replace(backup, current_exe)
ReplaceBackup ==
    /\ upd.pc = "replace3"
    /\ \E done \in BOOLEAN :
          upd' = IF done
                 THEN [upd EXCEPT !.exe = upd.backup, !.backup = "none", !.pc = "popen"]
                 ELSE [upd EXCEPT !.pc = "popen"]
    /\ UNCHANGED UpdRest

\* lines 246-247: the executable is started and the process exits; Popen
\* raises when there is nothing it can start at the path
Relaunch ==
    /\ upd.pc = "popen"
    /\ \E started_ok \in BOOLEAN :
          upd' = IF started_ok /\ upd.exe \in {"old", "new"}
                 THEN [upd EXCEPT !.pc = "end", !.outcome = "exit"]
                 ELSE ReturnNone(upd)
    /\ UNCHANGED UpdRest

NextUpdate ==
    \/ DownloadUpdate
    \/ CheckFrozen
    \/ ReplaceCurrent
    \/ RemoveBackup
    \/ ReplaceCurrentAgain
    \/ CopyToCurrent
    \/ CopyToBackup
    \/ ReplaceBackup
    \/ Relaunch

SpecUpdate == InitUpdate /\ [][NextUpdate]_vars

\* C19: when install_update has ended on a packaged executable without the
\* new version at the executable's path, the old executable is at that
\* path, and the call ended by returning or by exiting the process.
C19_OldExeKept ==
    (upd.pc = "end" /\ upd.frozen /\ upd.exe # "new") =>
        /\ upd.exe = "old"
        /\ upd.outcome \in {"none", "temp", "exit"}

-----------------------------------------------------------------------------
(* Properties of the options builder, checked under SpecBuild *)

Returned == ret # Pending

VideoTarget == ~args.to_mp3

FallbackFormat == "best[ext=mp4]/best"

\* C5 as claimed: whenever ffmpeg is unavailable the returned 'format' is the
\* single-file fallback 'best[ext=mp4]/best', for every request, whatever
\* its target format.
C5_FallbackForEveryTarget ==
    (Returned /\ ~args.ffmpeg) => ret.opts.format = FallbackFormat

\* C5 as amended: whenever ffmpeg is unavailable and the target is video
\* (to_mp3 false) the returned 'format' is 'best[ext=mp4]/best' whatever the
\* quality selector and flags; an audio target keeps 'bestaudio/best'.
C5_FallbackForVideoTarget ==
    (Returned /\ ~args.ffmpeg) =>
        /\ ~ret.raised
        /\ VideoTarget => ret.opts.format = FallbackFormat
        /\ args.to_mp3 => ret.opts.format = "bestaudio/best"

C5_Witness ==
    /\ Returned /\ ~args.ffmpeg /\ VideoTarget /\ args.quality_label = Q720
    /\ ret.opts.format = FallbackFormat

\* the 'ffmpeg not found' entries the call added to the Log
FallbackLinesAdded == Count(logger, FfmpegMissingMsg)

\* C6: one call of _build_opts for a video target with ffmpeg unavailable
\* adds exactly one 'ffmpeg not found' entry to the Log, with the CLI wiring
\* and with the GUI wiring alike; a call with ffmpeg available adds none.
C6_OneFallbackLine ==
    Returned =>
        /\ (VideoTarget /\ ~args.ffmpeg) => FallbackLinesAdded = 1
        /\ args.ffmpeg => FallbackLinesAdded = 0

\* C7: an audio target (to_mp3) always gets 'format' = 'bestaudio/best' and
\* exactly one audio-extraction postprocessor whose preferredquality is the
\* requested bitrate, or '192' when the bitrate is None or empty, whatever
\* the quality selector, the flags and ffmpeg availability.
C7_AudioExtraction ==
    (Returned /\ args.to_mp3) =>
        /\ ~ret.raised
        /\ ret.opts.format = "bestaudio/best"
        /\ Len(ret.opts.postprocessors) = 1
        /\ ret.opts.postprocessors[1].key = "FFmpegExtractAudio"
        /\ ret.opts.postprocessors[1].preferredquality =
              (IF args.mp3_bitrate \in {NoneStr, ""} THEN "192" ELSE args.mp3_bitrate)

C7_Witness ==
    /\ Returned /\ args.to_mp3 /\ args.mp3_bitrate = NoneStr
    /\ args.quality_label = Q720 /\ ~args.ffmpeg
    /\ ret.opts.postprocessors[1].preferredquality = "192"

\* the decimal digits of a label, in order
DigitsOf(s) == SelectSeq(s, LAMBDA c : c \in {"0", "1", "2", "3", "4", "5", "6", "7", "8", "9"})

RECURSIVE DropLeadingZeros(_)
DropLeadingZeros(ds) ==
    IF ds # <<>> /\ ds[1] = "0" THEN DropLeadingZeros(Tail(ds)) ELSE ds

RECURSIVE Concat(_)
Concat(cs) == IF cs = <<>> THEN "" ELSE cs[1] \o Concat(Tail(cs))

\* the numeral of the positive integer a label parses to ("" if there is none)
HeightNumeral(s) == Concat(DropLeadingZeros(DigitsOf(s)))

\* C8: a video target whose quality selector parses to a positive integer h,
\* with ffmpeg available, gets 'format' =
\* 'bestvideo[height<=h]+bestaudio/best[height<=h]', the same h on both legs.
C8_HeightOnBothLegs ==
    (Returned /\ VideoTarget /\ args.ffmpeg /\ args.quality_label # Auto
       /\ HeightNumeral(args.quality_label) # "") =>
        /\ ~ret.raised
        /\ ret.opts.format =
              "bestvideo[height<=" \o HeightNumeral(args.quality_label)
                 \o "]+bestaudio/best[height<=" \o HeightNumeral(args.quality_label) \o "]"

C8_Witness ==
    /\ Returned /\ VideoTarget /\ args.ffmpeg /\ args.quality_label = Q720
    /\ ret.opts.format = "bestvideo[height<=720]+bestaudio/best[height<=720]"

\* C9: _build_opts returns an Options Record without raising for every
\* input, and a video target with ffmpeg available whose quality selector
\* is 'auto', empty or without any digit gets 'format' = 'best'.
C9_BuilderNeverFails ==
    Returned =>
        /\ ~ret.raised
        /\ "format" \in DOMAIN ret.opts
        /\ (VideoTarget /\ args.ffmpeg
              /\ (args.quality_label = Auto \/ DigitsOf(args.quality_label) = <<>>))
           => ret.opts.format = "best"

C9_Witness ==
    /\ Returned /\ VideoTarget /\ args.ffmpeg /\ args.quality_label = <<"p", "p">>
    /\ ~ret.raised /\ ret.opts.format = "best"

\* C10: with the metadata flag set the returned record requests both sidecar
\* files (writedescription and writeinfojson are True), for every request,
\* audio targets included; with the flag not set neither key is requested.
C10_MetadataSidecars ==
    Returned =>
        /\ args.save_meta =>
              /\ {"writedescription", "writeinfojson"} \subseteq DOMAIN ret.opts
              /\ ret.opts.writedescription = TRUE
              /\ ret.opts.writeinfojson = TRUE
        /\ ~args.save_meta =>
              {"writedescription", "writeinfojson"} \cap DOMAIN ret.opts = {}

Handed == handed # <<>>

\* C11: the record _build_opts returns always has noplaylist = True; the
\* record download() hands to the library has noplaylist = False exactly
\* when mode is 'playlist' or 'channel', and no other entry differs from
\* the built record.
C11_NoPlaylist ==
    /\ Returned => ret.opts.noplaylist = TRUE
    /\ Handed =>
          /\ handed.noplaylist = FALSE <=> args.mode \in {"playlist", "channel"}
          /\ DOMAIN handed = DOMAIN ret.opts
          /\ \A k \in DOMAIN handed \ {"noplaylist"} : handed[k] = ret.opts[k]

C11_Witness ==
    /\ Handed /\ args.mode = "channel" /\ args.to_mp3 /\ args.save_meta
    /\ ret.opts.noplaylist = TRUE /\ handed.noplaylist = FALSE
    /\ handed.format = "bestaudio/best"

-----------------------------------------------------------------------------
(* Properties of the progress normalizer, checked under SpecProgress *)

\* C12: a call of _update_progress with a raw value below 0 or above 1000
\* changes neither max-seen, nor the stored percent, nor the displayed
\* progress value.
C12_NoiseDiscarded ==
    [][(raw' < 0 \/ raw' > NoiseLimit) =>
          /\ max_seen_pct' = max_seen_pct
          /\ stable_pct' = stable_pct
          /\ progress' = progress]_vars

\* 1500 arrived while 70 was on display and nothing was displayed for it
C12_Witness ==
    /\ raw = 1500 /\ shown = -1
    /\ max_seen_pct = 70 /\ stable_pct = 70 /\ progress = 70

\* C20: after any sequence of _update_progress calls the displayed value is
\* in 0..100 and, between calls, max-seen and the stored percent are equal
\* and in 0..99.
C20_Range ==
    /\ progress \in 0..MaxPct
    /\ shown \in {-1} \cup 0..MaxPct
    /\ max_seen_pct = stable_pct
    /\ max_seen_pct \in 0..(MaxPct - 1)

\* 1000, the largest accepted value, was displayed as 100 and the state is 0/0
C20_Witness ==
    /\ raw = 1000 /\ shown = MaxPct /\ progress = MaxPct
    /\ max_seen_pct = 0 /\ stable_pct = 0

-----------------------------------------------------------------------------
(* Properties of one download at a time, checked under SpecPatient *)

LastEntry(lines) == IF lines = <<>> THEN "" ELSE lines[Len(lines)]

\* the step is a hook call that logged 'Download finished for'
FinishedEventStep ==
    /\ nev' = nev + 1
    /\ Len(logger') > Len(logger)
    /\ LastEntry(logger') = FinishedForMsg

\* C13: every finished event delivered to _progress_hook displays 100 and
\* leaves max-seen and the stored percent at 0, so that a following
\* downloading event is displayed at its own percentage.
C13_FinishedForces100 ==
    [][FinishedEventStep =>
          /\ shown' = 100 /\ progress' = 100
          /\ max_seen_pct' = 0 /\ stable_pct' = 0
          /\ \A d \in Events :
                d.status = "downloading" =>
                   UpdateProgress([has |-> has_pct', stable |-> stable_pct',
                                   max_seen |-> max_seen_pct', bar |-> progress',
                                   label |-> status', shown |-> shown'],
                                  Percent(d)).shown = Percent(d)]_vars

\* the second event of a download was a finished event, after an event that
\* logged nothing
C13_Witness ==
    /\ nev = 2 /\ Len(pc) = 1 /\ pc[1] = "library"
    /\ Count(logger, FinishedForMsg) = Count(logger, StartingMsg)
    /\ LastEntry(logger) = FinishedForMsg
    /\ shown = 100 /\ progress = 100 /\ max_seen_pct = 0 /\ stable_pct = 0

\* the step is thread i leaving download()
LeavesDownload(i) ==
    /\ pc[i] \in {"library", "failed"}
    /\ pc'[i] \notin {"library", "failed"}

\* C14: a failure inside download() never escapes it: it is logged as
\* 'Download failed' and the result is False; the result is True only when
\* the library call returned; the worker then reports 'Finished' exactly
\* for True and 'Failed' exactly for False.
C14_FailureContained ==
    [][\A i \in Threads :
          /\ LeavesDownload(i) =>
                /\ pc'[i] = "enable"
                /\ \/ /\ ok'[i] /\ pc[i] = "library"
                      /\ LastEntry(logger') = FlowFinishedMsg
                   \/ /\ ~ok'[i]
                      /\ LastEntry(logger') = FailedMsg
                      /\ Len(logger') > Len(logger)
          /\ (pc[i] = "report" /\ pc'[i] # "report") =>
                /\ status' \in {"Finished", "Failed"}
                /\ status' = "Finished" <=> ok[i]
                /\ status' = "Failed" <=> ~ok[i]]_vars

\* a download that had delivered an event failed and was reported as failed
C14_Witness ==
    /\ Len(pc) = 1 /\ pc[1] = "done" /\ nev >= 1
    /\ LastEntry(logger) = FailedMsg
    /\ status = "Failed"

\* C15: once no worker is alive, the busy flag is False and the Download
\* button is enabled, on whatever path the workers ended.
C15_FlagAlwaysCleared ==
    ActiveWorkers = {} => (~downloading /\ download_btn = "normal")

-----------------------------------------------------------------------------
(* Property of the Log, checked under Spec *)

IsPrefix(a, b) == Len(a) <= Len(b) /\ SubSeq(b, 1, Len(a)) = a

\* C18: every step other than the user's Clear keeps the entries of the
\* Log and their order and adds only at the end; the Log gets shorter only
\* by Clear, which empties it.
C18_AppendOnly ==
    [][/\ IsPrefix(logger, logger') \/ ClearLogs
       /\ Len(logger') < Len(logger) => logger' = <<>>]_vars

\* the Log was cleared during a download and the download's end was logged
\* after that
C18_Witness ==
    /\ logger = <<FlowFinishedMsg, FlowFinishedMsg>>
    /\ nev >= 1

=============================================================================
